---------------------------- MODULE Spec2Model ----------------------------
(***************************************************************************)
(* Model of the credential pool and the account-switch protocol of the     *)
(* gateway: account_manager.py (AccountManager), auth.py (refresh_token,   *)
(* ensure_valid_token) and the handlers and the sweep thread of main.py.   *)
(*                                                                         *)
(* Threads.  The HTTP handlers are coroutines of one event loop: a handler *)
(* runs without interruption from one suspension point (an awaited network*)
(* call) to the next, so each action below is the code between two         *)
(* suspension points.  The sweep is a second OS thread.                    *)
(*                                                                         *)
(* Lists.  load_accounts() assigns a NEW list of NEW Account objects to    *)
(* manager.accounts.  A handler that captured the old list (refresh-all,   *)
(* the sweep) goes on with the old objects: alias = TRUE while its list is *)
(* still manager.accounts, and after a reload it keeps a snapshot.  The    *)
(* flags of an orphaned list are written but never read again, so only its *)
(* ids are kept.                                                           *)
(*                                                                         *)
(* config.py is not part of the sources: read_global_config,               *)
(* reset_global_config and update_global_config follow the specification   *)
(* (the session is rebuilt by projecting the active account of the pool).  *)
(***************************************************************************)
EXTENDS Integers, Sequences, FiniteSets, TLC

\* Bound: the number of accounts ever added (ids are never reused).
MaxAccounts == 3

VARIABLES
    disk,      \* account.json: the list last written by save_accounts
    mem,       \* manager.accounts: sequence of [id, is_active]
    secrets,   \* ids whose refresh_token, client_id and client_secret are all non-empty
    nextId,    \* the next fresh id (uuid4 in the code)
    config,    \* the global session: [built, acct]; built = FALSE is None
    tokens,    \* account slots holding an unexpired access token
    rat,       \* refresh_account_token handler in flight
    ra,        \* refresh_all_accounts handler in flight
    report,    \* the last report returned by refresh_all_accounts
    chat,      \* a chat handler (create_message / chat_completions) in flight
    sw,        \* the sweep thread _background_token_refresh
    refresh_status, \* the outcomes written by update_refresh_status: [id, status]
    act,       \* a call of AccountManager.activate_account between its statements
    listing,   \* get_all_accounts applied to one account: the secrets and the view
    stream,    \* openai_stream: the event blocks still to come and the output
    tool_results, \* create_message: the merge of the current turn's toolResults
    call,      \* one chat call from the request to the end of its response
    renewal    \* refresh_token(): the token response and the session fields

vars == <<disk, mem, secrets, nextId, config, tokens, rat, ra, report, chat, sw,
          refresh_status, act, listing, stream, tool_results, call, renewal>>

AccountIds == 1..MaxAccounts

\* ------------------------------------------------------------ class Account

\* The fields of the dataclass Account.
AccountFields ==
    {"id", "refresh_token", "client_id", "client_secret", "profile_arn",
     "name", "is_active", "created_at"}

\* The methods of class AccountManager.
ManagerMethods ==
    {"load_accounts", "save_accounts", "get_all_accounts", "get_account_by_id",
     "get_active_account", "add_account", "delete_account", "activate_account"}

\* Attribute access on an Account succeeds only for a declared field;
\* otherwise Python raises AttributeError.
HasField(f) == f \in AccountFields

\* Method lookup on the manager; a missing method raises AttributeError.
HasMethod(m) == m \in ManagerMethods

\* ------------------------------------------------------------ list helpers

Ids(l) == [i \in 1..Len(l) |-> l[i].id]

IdSet(l) == {l[i].id : i \in 1..Len(l)}

NumActive(l) == Cardinality({i \in 1..Len(l) : l[i].is_active})

\* The id of the first account flagged active, 0 (None) when there is none.
FirstFlagged(l) ==
    IF \E i \in 1..Len(l) : l[i].is_active
    THEN l[CHOOSE i \in 1..Len(l) :
               l[i].is_active /\ \A j \in 1..(i - 1) : ~l[j].is_active].id
    ELSE 0

\* The id of the last account flagged active, 0 (None) when there is none
\* (the capture loop of refresh_account_token has no break).
LastFlagged(l) ==
    IF \E i \in 1..Len(l) : l[i].is_active
    THEN l[CHOOSE i \in 1..Len(l) :
               l[i].is_active /\ \A j \in (i + 1)..Len(l) : ~l[j].is_active].id
    ELSE 0

\* for acc in accounts: acc.is_active = False; account.is_active = True
OnlyActive(l, id) ==
    [i \in 1..Len(l) |-> [l[i] EXCEPT !.is_active = (l[i].id = id)]]

\* list.remove(account)
Without(l, id) == SelectSeq(l, LAMBDA a : a.id # id)

\* ------------------------------------------------------------ AccountManager

\* Variant of load_accounts that reads every account as not active.
load_accounts_inactive(file) ==
    [i \in 1..Len(file) |-> [id |-> file[i].id, is_active |-> FALSE]]

\* load_accounts(): manager.accounts becomes a new list with one Account per
\* record of the file, whatever the list held before; no file, or a file
\* that cannot be parsed, gives the empty list.
load_accounts(file) ==
    [i \in 1..Len(file) |->
        [id |-> file[i].id, is_active |-> file[i].is_active]]

\* get_active_account without its reload: first flagged, else the first.
get_active_account(l) ==
    IF FirstFlagged(l) # 0 THEN FirstFlagged(l)
    ELSE IF Len(l) > 0 THEN l[1].id ELSE 0

\* add_account: the new account is active iff the list was empty.
add_account(l, id) == Append(l, [id |-> id, is_active |-> (Len(l) = 0)])

\* Variant of delete_account that forgets to re-activate an account.
delete_account_no_reactivation(l, id) == Without(l, id)

\* Variant of delete_account that re-activates the last remaining account.
delete_account_activates_last(l, id) ==
    LET wasActive == \E i \in 1..Len(l) : l[i].id = id /\ l[i].is_active
        rest == Without(l, id)
    IN  IF wasActive /\ Len(rest) > 0
        THEN [i \in 1..Len(rest) |->
                 IF i = Len(rest) THEN [rest[i] EXCEPT !.is_active = TRUE]
                 ELSE rest[i]]
        ELSE rest

\* delete_account after its lookup: remove, re-activate the first if the
\* removed account was the active one.
delete_account(l, id) ==
    LET wasActive == \E i \in 1..Len(l) : l[i].id = id /\ l[i].is_active
        rest == Without(l, id)
    IN  IF wasActive /\ Len(rest) > 0
        THEN [i \in 1..Len(rest) |->
                 IF i = 1 THEN [rest[i] EXCEPT !.is_active = TRUE] ELSE rest[i]]
        ELSE rest

\* Variant of activate_account that toggles the flag of the target.
activate_account_toggle(l, id) ==
    [i \in 1..Len(l) |->
        IF l[i].id = id THEN [l[i] EXCEPT !.is_active = ~l[i].is_active]
        ELSE [l[i] EXCEPT !.is_active = FALSE]]

\* activate_account after its lookup: deactivate all, activate the target.
activate_account(l, id) == OnlyActive(l, id)

\* The outcomes of save_accounts: the write succeeds; open() fails and the
\* file is unchanged; the write fails after open() truncated the file, and
\* load_accounts reads the unparsable file as the empty list.
SaveOutcomes == {"ok", "open_fail", "write_fail"}

save_accounts(l, outcome) ==
    CASE outcome = "ok" -> l
      [] outcome = "open_fail" -> disk
      [] OTHER -> << >>

\* ------------------------------------------------------------ config (session)

NoConfig == [built |-> FALSE, acct |-> 0]

\* reset_global_config(): the session is dropped.
reset_global_config == NoConfig

\* read_global_config(): the cached session, or one rebuilt from the active
\* account of the pool (0: no account).
read_global_config(cfg, l) ==
    IF cfg.built THEN cfg ELSE [built |-> TRUE, acct |-> get_active_account(l)]

\* ------------------------------------------------------------ captured lists

\* Handler records.  quiet and attempted are history fields: quiet is TRUE
\* while no other request has changed which account is selected (activate,
\* delete of the active account, first add) since the handler started;
\* attempted holds the accounts the handler has sent a renewal request for.
IdleRa == [pc |-> "idle", idx |-> 0, old |-> 0, req |-> 0, alias |-> FALSE,
           success_count |-> 0, failed_count |-> 0,
           snap |-> << >>, results |-> << >>, attempted |-> {}, quiet |-> TRUE]

IdleRat == [pc |-> "idle", t |-> 0, old |-> 0, req |-> 0, quiet |-> TRUE]

IdleChat == [pc |-> "idle", profile |-> 0, req |-> 0, tok |-> 0]

\* accounts and attempted are history fields of the report: the ids of the
\* list the handler iterated and the accounts it sent a request for.
NoReport == [made |-> FALSE, total |-> 0, success_count |-> 0,
             failed_count |-> 0, results |-> << >>, accounts |-> << >>,
             attempted |-> {}]

\* No call of activate_account is between two of its statements.
IdleAct == [pc |-> "idle", id |-> 0]

\* get_all_accounts has not been applied; secrets are sequences of characters.
NoListing == [made |-> FALSE, refresh_token |-> << >>, client_secret |-> << >>,
              shown_token |-> << >>, shown_secret |-> << >>]

\* No stream is being translated.
NoStream == [pc |-> "idle", input |-> << >>, events |-> << >>, out |-> << >>,
             role_sent |-> FALSE, raised |-> FALSE]

\* No toolResults list is being merged.
NoToolResults == [pc |-> "idle", input |-> << >>, rest |-> << >>,
                  merged |-> << >>, seen |-> {}, out |-> << >>]

\* No chat call is being served.
IdleCall == [pc |-> "idle", endpoint |-> "", do_stream |-> FALSE,
             backend |-> "", history |-> << >>, deltas |-> << >>,
             sent |-> FALSE, sent_history |-> << >>, started |-> FALSE,
             error |-> FALSE, rest |-> << >>, body |-> << >>,
             content |-> ""]

\* No token response is being handled.
NoRenewal == [pc |-> "idle", status |-> "", response |-> << >>,
              before |-> << >>, session |-> << >>, raised |-> FALSE]

\* manager.update_refresh_status(account.id, "success" | "failed"): the
\* attribute lookup on the manager fails (AttributeError) and nothing is
\* written.
update_refresh_status(rs, id, ok) ==
    IF HasMethod("update_refresh_status")
    THEN rs \cup {[id |-> id, status |-> IF ok THEN "success" ELSE "failed"]}
    ELSE rs

\* The ids of the list a handler captured with `accounts = manager.accounts`.
Captured(h, l) == IF h.alias THEN Ids(l) ELSE h.snap

\* load_accounts() replaced manager.accounts: a handler holding the old list
\* keeps it.
Orphaned(h) ==
    IF h.alias THEN [h EXCEPT !.alias = FALSE, !.snap = Ids(mem)] ELSE h

\* History: another request changed the selected account while h is in flight.
Disturbed(h, changed) ==
    IF h.pc # "idle" /\ changed THEN [h EXCEPT !.quiet = FALSE] ELSE h


\* ------------------------------------------------------------ initial state

\* An empty pool, no account file; lifespan() has built the session once.
InitServer ==
    /\ disk = << >>
    /\ mem = << >>
    /\ secrets = {}
    /\ nextId = 1
    /\ config = [built |-> TRUE, acct |-> 0]
    /\ tokens = {}
    /\ rat = IdleRat
    /\ ra = IdleRa
    /\ report = NoReport
    /\ chat = IdleChat
    /\ sw = [pc |-> "sleep", idx |-> 0, alias |-> FALSE, snap |-> << >>,
             examined |-> {}, failed |-> {}, renewed |-> {},
             aborted |-> FALSE]
    /\ refresh_status = {}
    /\ act = IdleAct

Init ==
    /\ InitServer
    /\ listing = NoListing
    /\ stream = NoStream
    /\ tool_results = NoToolResults
    /\ call = IdleCall
    /\ renewal = NoRenewal

\* ------------------------------------------------------------ pool endpoints

\* POST /api/accounts: manager.add_account (no reload before the append),
\* then reset_global_config() unless save_accounts raised.
api_add_account(has, outcome) ==
    /\ nextId <= MaxAccounts
    /\ LET l == add_account(mem, nextId)
       IN  /\ mem' = l
           /\ disk' = save_accounts(l, outcome)
    /\ config' = IF outcome = "ok" THEN reset_global_config ELSE config
    /\ secrets' = IF has THEN secrets \cup {nextId} ELSE secrets
    /\ nextId' = nextId + 1
    /\ rat' = Disturbed(rat, Len(mem) = 0)
    /\ ra' = Disturbed(ra, Len(mem) = 0)
    /\ UNCHANGED <<tokens, report, chat, sw,
                   refresh_status, act, listing, stream,
                   tool_results, call, renewal>>

\* DELETE /api/accounts/{id}: get_account_by_id reloads; absent: 404.
api_delete_account(id, outcome) ==
    /\ IF id \notin IdSet(disk)
       THEN /\ mem' = disk
            /\ UNCHANGED <<disk, config>>
       ELSE LET l == delete_account(disk, id)
            IN  /\ mem' = l
                /\ disk' = save_accounts(l, outcome)
                /\ config' = IF outcome = "ok" THEN reset_global_config ELSE config
    /\ rat' = Disturbed(rat, FirstFlagged(disk') # FirstFlagged(disk))
    /\ ra' = Disturbed(Orphaned(ra), FirstFlagged(disk') # FirstFlagged(disk))
    /\ sw' = Orphaned(sw)
    /\ UNCHANGED <<secrets, nextId, tokens, report, chat,
                   refresh_status, act, listing, stream,
                   tool_results, call, renewal>>

\* POST /api/accounts/{id}/activate: get_account_by_id reloads; absent: 404.
api_activate_account(id, outcome) ==
    /\ IF id \notin IdSet(disk)
       THEN /\ mem' = disk
            /\ UNCHANGED <<disk, config>>
       ELSE LET l == activate_account(disk, id)
            IN  /\ mem' = l
                /\ disk' = save_accounts(l, outcome)
                /\ config' = IF outcome = "ok" THEN reset_global_config ELSE config
    /\ rat' = Disturbed(rat, FirstFlagged(disk') # FirstFlagged(disk))
    /\ ra' = Disturbed(Orphaned(ra), FirstFlagged(disk') # FirstFlagged(disk))
    /\ sw' = Orphaned(sw)
    /\ UNCHANGED <<secrets, nextId, tokens, report, chat,
                   refresh_status, act, listing, stream,
                   tool_results, call, renewal>>

\* GET /api/accounts: get_all_accounts reloads the pool from the file.
api_get_accounts ==
    /\ mem' = load_accounts(disk)
    /\ ra' = Orphaned(ra)
    /\ sw' = Orphaned(sw)
    /\ UNCHANGED <<disk, secrets, nextId, config, tokens, rat, report, chat,
                   refresh_status, act, listing, stream,
                   tool_results, call, renewal>>

\* manager.get_account_by_id(id) by itself (the lookup that ends a request
\* with 404, lines 350-356): the pool is reloaded, then searched.
manager_get_account_by_id(id) ==
    /\ id \notin IdSet(disk)
    /\ mem' = load_accounts(disk)
    /\ ra' = Orphaned(ra)
    /\ sw' = Orphaned(sw)
    /\ UNCHANGED <<disk, secrets, nextId, config, tokens, rat, report, chat,
                   refresh_status, act, listing, stream,
                   tool_results, call, renewal>>

\* manager.get_active_account() by itself: the pool is reloaded, then the
\* first flagged account (or the first account) is returned.
manager_get_active_account ==
    /\ mem' = load_accounts(disk)
    /\ ra' = Orphaned(ra)
    /\ sw' = Orphaned(sw)
    /\ UNCHANGED <<disk, secrets, nextId, config, tokens, rat, report, chat,
                   refresh_status, act, listing, stream,
                   tool_results, call, renewal>>

\* The access token of a slot passes its expiry.
token_expire(a) ==
    /\ a \in tokens
    /\ tokens' = tokens \ {a}
    /\ UNCHANGED <<disk, mem, secrets, nextId, config, rat, ra, report, chat, sw,
                   refresh_status, act, listing, stream,
                   tool_results, call, renewal>>

\* ------------------------------------------------------------ auth.py

\* The result of the POST to the token endpoint: a request that carries no
\* account's credentials (req = 0) cannot succeed.
RefreshResults(req) == IF req = 0 THEN {FALSE} ELSE BOOLEAN

\* refresh_token() after the response: on success update_global_config stores
\* the new access token in the session slot of the renewed account.
update_global_config(toks, req, ok) == IF ok THEN toks \cup {req} ELSE toks

\* ------------------------------------------------------------ single renewal

\* POST /v2/accounts/{id}/refresh up to the suspension in refresh_token():
\* lookup (reload), 404 / 400, capture old_active_id, deactivate all, activate
\* the target, reset_global_config(), and refresh_token() reads the session
\* and sends the request with the credentials of that session.
refresh_account_token_start(t) ==
    /\ rat.pc = "idle"
    /\ IF t \notin IdSet(disk) \/ t \notin secrets
       THEN /\ mem' = disk
            /\ UNCHANGED <<config, rat>>
       ELSE LET l == OnlyActive(disk, t)
                cfg == read_global_config(reset_global_config, l)
            IN  /\ mem' = l
                /\ config' = cfg
                /\ rat' = [pc |-> "await", t |-> t, old |-> LastFlagged(disk),
                           req |-> cfg.acct, quiet |-> TRUE]
    /\ ra' = Orphaned(ra)
    /\ sw' = Orphaned(sw)
    /\ UNCHANGED <<disk, secrets, nextId, tokens, report, chat,
                   refresh_status, act, listing, stream,
                   tool_results, call, renewal>>

\* The rest of the handler.  manager.update_refresh_status is not a method of
\* AccountManager: the call of line 381 (after a successful refresh) raises
\* AttributeError, which the except of line 410 catches, and the call of line
\* 412 raises it again (as it does after a failed refresh); the outer except
\* answers 500.  The restore of lines 383-393 and 414-422 is not reached.
refresh_account_token_resume(ok) ==
    /\ rat.pc = "await"
    /\ ok \in RefreshResults(rat.req)
    /\ ~HasMethod("update_refresh_status")
    /\ tokens' = update_global_config(tokens, rat.req, ok)
    /\ refresh_status' = update_refresh_status(refresh_status, rat.t, ok)
    /\ rat' = IdleRat
    /\ UNCHANGED <<disk, mem, secrets, nextId, config, ra, report, chat, sw,
                   act, listing, stream,
                   tool_results, call, renewal>>

\* ------------------------------------------------------------ bulk renewal

\* Restore of lines 771-780 on the captured list.
RestoreActive(l, old) ==
    IF old # 0 THEN OnlyActive(l, old)
    ELSE IF Len(l) > 0 THEN OnlyActive(l, l[1].id) ELSE l

\* The report of lines 786-795.
MakeReport(ids, res, att, success_count, failed_count) ==
    [made |-> TRUE, total |-> Len(ids), success_count |-> success_count,
     failed_count |-> failed_count, results |-> res, accounts |-> ids,
     attempted |-> att]

\* The loop of lines 718-769 from index h.idx up to the next suspension:
\* accounts lacking a secret are reported skipped; at the first complete
\* account the handler deactivates all accounts of its list, activates that
\* one, resets the session, and refresh_token() reads the session (rebuilt
\* from manager.accounts) and sends the request.  Past the last account it
\* restores the flags of its list, resets the session and returns the report
\* (no report exists while the handler is suspended).
RunLoop(h, l) ==
    LET ids == Captured(h, l)
        cand == {j \in h.idx..Len(ids) : ids[j] \in secrets}
        j == IF cand = {} THEN Len(ids) + 1
             ELSE CHOOSE x \in cand : \A y \in cand : x <= y
        res == h.results \o
               [k \in 1..(j - h.idx) |->
                    [id |-> ids[h.idx + k - 1], status |-> "skipped"]]
    IN  IF j <= Len(ids)
        THEN LET l2 == IF h.alias THEN OnlyActive(l, ids[j]) ELSE l
                 cfg == read_global_config(reset_global_config, l2)
             IN  [ra |-> [h EXCEPT !.pc = "await", !.idx = j, !.req = cfg.acct,
                                   !.results = res,
                                   !.failed_count = h.failed_count + (j - h.idx),
                                   !.attempted = h.attempted \cup {ids[j]}],
                  mem |-> l2, config |-> cfg, report |-> NoReport]
        ELSE [ra |-> IdleRa,
              mem |-> IF h.alias THEN RestoreActive(l, h.old) ELSE l,
              config |-> reset_global_config,
              report |-> MakeReport(ids, res, h.attempted, h.success_count,
                                    h.failed_count + (j - h.idx))]

\* POST /v2/accounts/refresh-all: accounts = manager.accounts (no reload);
\* an empty pool answers 400.
refresh_all_accounts_start ==
    /\ ra.pc = "idle"
    /\ IF Len(mem) = 0
       THEN /\ report' = NoReport
            /\ UNCHANGED <<mem, config, ra>>
       ELSE LET n == RunLoop([IdleRa EXCEPT !.idx = 1, !.alias = TRUE,
                                            !.old = FirstFlagged(mem)], mem)
            IN  /\ ra' = n.ra
                /\ mem' = n.mem
                /\ config' = n.config
                /\ report' = n.report
    /\ UNCHANGED <<disk, secrets, nextId, tokens, rat, chat, sw,
                   refresh_status, act, listing, stream,
                   tool_results, call, renewal>>

\* Variant of OutcomeEntries in which the success entry is appended before
\* the bookkeeping call, so a bookkeeping failure leaves two entries.
OutcomeEntries_append_first(id, ok) ==
    IF ok
    THEN << [id |-> id, status |-> "success"], [id |-> id, status |-> "error"] >>
    ELSE << [id |-> id, status |-> "error"] >>

\* The entries the handler appends for the account whose refresh returned:
\* update_refresh_status raises AttributeError in the try part (line 742,
\* before the append of line 744) or in the except part (line 751, before
\* the append of line 753), so the except of line 761 appends one "error".
OutcomeEntries(id, ok) ==
    IF HasMethod("update_refresh_status")
    THEN << [id |-> id, status |-> IF ok THEN "success" ELSE "failed"] >>
    ELSE << [id |-> id, status |-> "error"] >>

\* Variant of OutcomeCounts in which the except of line 761 counts nothing.
OutcomeCounts_error_uncounted(ok) ==
    IF HasMethod("update_refresh_status")
    THEN [success |-> IF ok THEN 1 ELSE 0, failed |-> IF ok THEN 0 ELSE 1]
    ELSE [success |-> 0, failed |-> 0]

\* What the account whose refresh returned adds to success_count and
\* failed_count: line 743 or line 752 when the bookkeeping call before it
\* returns; the bookkeeping call raises before either, and the except of
\* line 761 adds one to failed_count (line 763).
OutcomeCounts(ok) ==
    IF HasMethod("update_refresh_status")
    THEN [success |-> IF ok THEN 1 ELSE 0, failed |-> IF ok THEN 0 ELSE 1]
    ELSE [success |-> 0, failed |-> 1]

\* refresh_token() returns or raises; the outcome is recorded and the loop
\* goes on with the next account.
refresh_all_accounts_resume(ok) ==
    /\ ra.pc = "await"
    /\ ok \in RefreshResults(ra.req)
    /\ tokens' = update_global_config(tokens, ra.req, ok)
    /\ refresh_status' =
           update_refresh_status(refresh_status, Captured(ra, mem)[ra.idx], ok)
    /\ LET ids == Captured(ra, mem)
           n == RunLoop([ra EXCEPT !.idx = ra.idx + 1,
                            !.success_count = @ + OutcomeCounts(ok).success,
                            !.failed_count = @ + OutcomeCounts(ok).failed,
                            !.results = ra.results \o
                                        OutcomeEntries(ids[ra.idx], ok)],
                        mem)
       IN  /\ ra' = n.ra
           /\ mem' = n.mem
           /\ config' = n.config
           /\ report' = n.report
    /\ UNCHANGED <<disk, secrets, nextId, rat, chat, sw,
                   act, listing, stream,
                   tool_results, call, renewal>>

\* ------------------------------------------------------------ chat requests

\* create_message / chat_completions up to the first suspension: the handler
\* reads the session (profile_arn), then get_auth_headers() calls
\* ensure_valid_token(): a session with an unexpired token yields it and the
\* backend call starts; otherwise refresh_token() sends a request with the
\* credentials of the session.  Without any account there is no credential
\* and the request fails.
chat_start ==
    /\ chat.pc = "idle"
    /\ LET cfg == read_global_config(config, mem)
       IN  /\ config' = cfg
           /\ chat' = IF cfg.acct = 0 THEN IdleChat
                      ELSE IF cfg.acct \in tokens
                      THEN [pc |-> "call", profile |-> cfg.acct, req |-> 0,
                            tok |-> cfg.acct]
                      ELSE [pc |-> "await", profile |-> cfg.acct,
                            req |-> cfg.acct, tok |-> 0]
    /\ UNCHANGED <<disk, mem, secrets, nextId, tokens, rat, ra, report, sw,
                   refresh_status, act, listing, stream,
                   tool_results, call, renewal>>

\* ensure_valid_token() after refresh_token(): a failure raises; after a
\* success it reads the session again and returns the access token of that
\* session, or raises when that session has none.
chat_resume(ok) ==
    /\ chat.pc = "await"
    /\ ok \in RefreshResults(chat.req)
    /\ LET toks == update_global_config(tokens, chat.req, ok)
           cfg == read_global_config(config, mem)
       IN  /\ tokens' = toks
           /\ config' = IF ok THEN cfg ELSE config
           /\ chat' = IF ok /\ cfg.acct \in toks
                      THEN [chat EXCEPT !.pc = "call", !.req = 0, !.tok = cfg.acct]
                      ELSE IdleChat
    /\ UNCHANGED <<disk, mem, secrets, nextId, rat, ra, report, sw,
                   refresh_status, act, listing, stream,
                   tool_results, call, renewal>>

\* The backend call ends.
chat_done ==
    /\ chat.pc = "call"
    /\ chat' = IdleChat
    /\ UNCHANGED <<disk, mem, secrets, nextId, config, tokens, rat, ra, report, sw,
                   refresh_status, act, listing, stream,
                   tool_results, call, renewal>>

\* ------------------------------------------------------------ sweep thread

\* The sweep wakes after its sleep: accounts = manager.accounts.
background_token_refresh_wake ==
    /\ sw.pc = "sleep"
    /\ sw' = [pc |-> "cycle", idx |-> 1, alias |-> TRUE, snap |-> << >>,
              examined |-> {}, failed |-> {}, renewed |-> {},
              aborted |-> FALSE]
    /\ UNCHANGED <<disk, mem, secrets, nextId, config, tokens, rat, ra, report, chat,
                   refresh_status, act, listing, stream,
                   tool_results, call, renewal>>

\* One iteration of `for account in accounts`.  Line 53 reads
\* account.last_refresh_time, which is not a field of Account: the read raises
\* AttributeError, the except of line 97 logs it and the loop continues.  The
\* switch of lines 63-95 is not reached.
background_token_refresh_examine ==
    /\ sw.pc = "cycle"
    /\ sw.idx <= Len(Captured(sw, mem))
    /\ ~HasField("last_refresh_time")
    /\ sw' = [sw EXCEPT !.idx = sw.idx + 1,
                        !.examined = sw.examined \cup {Captured(sw, mem)[sw.idx]},
                        !.failed = sw.failed \cup {Captured(sw, mem)[sw.idx]}]
    /\ UNCHANGED <<disk, mem, secrets, nextId, config, tokens, rat, ra, report, chat,
                   refresh_status, act, listing, stream,
                   tool_results, call, renewal>>

\* The loop is over: the thread sleeps again.  The record keeps the history
\* of the cycle just ended: its list, the accounts examined, those whose
\* processing raised, and those a renewal was attempted for.
background_token_refresh_cycle_end ==
    /\ sw.pc = "cycle"
    /\ sw.idx > Len(Captured(sw, mem))
    /\ sw' = [sw EXCEPT !.pc = "sleep", !.alias = FALSE,
                        !.snap = Captured(sw, mem)]
    /\ UNCHANGED <<disk, mem, secrets, nextId, config, tokens, rat, ra, report, chat,
                   refresh_status, act, listing, stream,
                   tool_results, call, renewal>>

\* Variant of background_token_refresh_except in which the exception ends
\* the thread.
background_token_refresh_except_exits(s, ids) ==
    [s EXCEPT !.pc = "exited", !.alias = FALSE, !.snap = ids,
              !.aborted = TRUE]

\* The except of lines 103-104: the exception is logged and `while True`
\* starts over with the sleep of line 41; the rest of the cycle is dropped.
\* aborted is a history field: the cycle just ended was cut short.
background_token_refresh_except(s, ids) ==
    [s EXCEPT !.pc = "sleep", !.alias = FALSE, !.snap = ids,
              !.aborted = TRUE]

\* A statement of the cycle outside the try of line 49 raises an exception.
background_token_refresh_raise ==
    /\ sw.pc = "cycle"
    /\ sw' = background_token_refresh_except(sw, Captured(sw, mem))
    /\ UNCHANGED <<disk, mem, secrets, nextId, config, tokens, rat, ra, report, chat,
                   refresh_status, act, listing, stream,
                   tool_results, call, renewal>>

\* ------------------------------------------------------------ specification

Next ==
    \/ \E has \in BOOLEAN, o \in SaveOutcomes : api_add_account(has, o)
    \/ \E id \in AccountIds, o \in SaveOutcomes : api_delete_account(id, o)
    \/ \E id \in AccountIds, o \in SaveOutcomes : api_activate_account(id, o)
    \/ api_get_accounts
    \/ \E a \in AccountIds : token_expire(a)
    \/ \E t \in AccountIds : refresh_account_token_start(t)
    \/ \E ok \in BOOLEAN : refresh_account_token_resume(ok)
    \/ refresh_all_accounts_start
    \/ \E ok \in BOOLEAN : refresh_all_accounts_resume(ok)
    \/ chat_start
    \/ \E ok \in BOOLEAN : chat_resume(ok)
    \/ chat_done
    \/ background_token_refresh_wake
    \/ background_token_refresh_examine
    \/ background_token_refresh_cycle_end

Spec == Init /\ [][Next]_vars

\* The pool endpoints alone, with every outcome of save_accounts.
NextPool ==
    \/ \E has \in BOOLEAN, o \in SaveOutcomes : api_add_account(has, o)
    \/ \E id \in AccountIds, o \in SaveOutcomes : api_delete_account(id, o)
    \/ \E id \in AccountIds, o \in SaveOutcomes : api_activate_account(id, o)
    \/ api_get_accounts

SpecPool == Init /\ [][NextPool]_vars

\* The sub-specifications below are the system with some kinds of request
\* absent and a file system that does not fail: each of their behaviours is
\* a behaviour of Spec.

\* Single renewals beside chat requests and the pool endpoints.
NextSwitch ==
    \/ \E has \in BOOLEAN : api_add_account(has, "ok")
    \/ \E id \in AccountIds : api_delete_account(id, "ok")
    \/ \E id \in AccountIds : api_activate_account(id, "ok")
    \/ api_get_accounts
    \/ \E a \in AccountIds : token_expire(a)
    \/ \E t \in AccountIds : refresh_account_token_start(t)
    \/ \E ok \in BOOLEAN : refresh_account_token_resume(ok)
    \/ chat_start
    \/ \E ok \in BOOLEAN : chat_resume(ok)
    \/ chat_done

SpecSwitch == Init /\ [][NextSwitch]_vars

\* The read accessors beside single renewals and the writers of the pool.
NextReads ==
    \/ \E has \in BOOLEAN : api_add_account(has, "ok")
    \/ \E id \in AccountIds : api_activate_account(id, "ok")
    \/ api_get_accounts
    \/ \E id \in AccountIds : manager_get_account_by_id(id)
    \/ manager_get_active_account
    \/ \E t \in AccountIds : refresh_account_token_start(t)
    \/ \E ok \in BOOLEAN : refresh_account_token_resume(ok)

SpecReads == Init /\ [][NextReads]_vars

\* Bulk renewals beside the pool endpoints.
NextBulk ==
    \/ \E has \in BOOLEAN : api_add_account(has, "ok")
    \/ \E id \in AccountIds : api_delete_account(id, "ok")
    \/ \E id \in AccountIds : api_activate_account(id, "ok")
    \/ api_get_accounts
    \/ refresh_all_accounts_start
    \/ \E ok \in BOOLEAN : refresh_all_accounts_resume(ok)

SpecBulk == Init /\ [][NextBulk]_vars

\* Single and bulk renewals beside the pool endpoints, every account added
\* with its three secrets.
NextOverlap ==
    \/ api_add_account(TRUE, "ok")
    \/ \E id \in AccountIds : api_delete_account(id, "ok")
    \/ \E id \in AccountIds : api_activate_account(id, "ok")
    \/ api_get_accounts
    \/ \E t \in AccountIds : refresh_account_token_start(t)
    \/ \E ok \in BOOLEAN : refresh_account_token_resume(ok)
    \/ refresh_all_accounts_start
    \/ \E ok \in BOOLEAN : refresh_all_accounts_resume(ok)

SpecOverlap == Init /\ [][NextOverlap]_vars

\* The sweep thread beside the pool endpoints.
NextSweep ==
    \/ \E has \in BOOLEAN : api_add_account(has, "ok")
    \/ \E id \in AccountIds : api_delete_account(id, "ok")
    \/ \E id \in AccountIds : api_activate_account(id, "ok")
    \/ api_get_accounts
    \/ background_token_refresh_wake
    \/ background_token_refresh_examine
    \/ background_token_refresh_cycle_end

SpecSweep == Init /\ [][NextSweep]_vars

\* The sweep thread with exceptions at any point of a cycle.  The thread is
\* scheduled: time.sleep(300) returns, and a cycle that can take a step
\* takes it.  Requests and exceptions need not occur.
NextSweepLive ==
    \/ NextSweep
    \/ background_token_refresh_raise

SpecSweepLive ==
    /\ Init
    /\ [][NextSweepLive]_vars
    /\ WF_vars(background_token_refresh_wake)
    /\ WF_vars(background_token_refresh_examine)
    /\ WF_vars(background_token_refresh_cycle_end)

\* ------------------------------------------------------------ threads

\* AccountManager.activate_account statement by statement, as the sweep
\* thread can run between any two of them (no lock is taken).  The handlers
\* of the event loop cannot: they wait for the call to return.

\* Lines 160-162: get_account_by_id reloads the pool; an absent id returns
\* False.
activate_account_load(id) ==
    /\ act.pc = "idle"
    /\ mem' = disk
    /\ sw' = Orphaned(sw)
    /\ act' = IF id \in IdSet(disk) THEN [pc |-> "loaded", id |-> id] ELSE IdleAct
    /\ UNCHANGED <<disk, secrets, nextId, config, tokens, rat, ra, report, chat,
                   refresh_status, listing, stream,
                   tool_results, call, renewal>>

\* Lines 165-166: every account of the list is deactivated.
activate_account_deactivate ==
    /\ act.pc = "loaded"
    /\ mem' = [i \in 1..Len(mem) |-> [mem[i] EXCEPT !.is_active = FALSE]]
    /\ act' = [act EXCEPT !.pc = "cleared"]
    /\ UNCHANGED <<disk, secrets, nextId, config, tokens, rat, ra, report, chat,
                   sw, refresh_status, listing, stream,
                   tool_results, call, renewal>>

\* Line 169: the target is activated.
activate_account_set ==
    /\ act.pc = "cleared"
    /\ mem' = [i \in 1..Len(mem) |->
                 IF mem[i].id = act.id THEN [mem[i] EXCEPT !.is_active = TRUE]
                 ELSE mem[i]]
    /\ act' = [act EXCEPT !.pc = "set"]
    /\ UNCHANGED <<disk, secrets, nextId, config, tokens, rat, ra, report, chat,
                   sw, refresh_status, listing, stream,
                   tool_results, call, renewal>>

\* Line 171 and the handler's reset_global_config() after the return.
activate_account_save(outcome) ==
    /\ act.pc = "set"
    /\ disk' = save_accounts(mem, outcome)
    /\ config' = IF outcome = "ok" THEN reset_global_config ELSE config
    /\ act' = IdleAct
    /\ UNCHANGED <<mem, secrets, nextId, tokens, rat, ra, report, chat, sw,
                   refresh_status, listing, stream,
                   tool_results, call, renewal>>

\* The sweep thread beside the event loop, activate_account taken statement
\* by statement; the other endpoints run while no activation is under way.
NextThreads ==
    \/ \E has \in BOOLEAN : act.pc = "idle" /\ api_add_account(has, "ok")
    \/ \E id \in AccountIds : act.pc = "idle" /\ api_delete_account(id, "ok")
    \/ act.pc = "idle" /\ api_get_accounts
    \/ \E id \in AccountIds : activate_account_load(id)
    \/ activate_account_deactivate
    \/ activate_account_set
    \/ activate_account_save("ok")
    \/ background_token_refresh_wake
    \/ background_token_refresh_examine
    \/ background_token_refresh_cycle_end

SpecThreads == Init /\ [][NextThreads]_vars

\* ------------------------------------------------------------ listing view

\* Bound: the length of the refresh credential.
MaxTokenLen == 15

\* The slices and the threshold of get_all_accounts (lines 78-79).
MaskThreshold == 14

PrefixLen == 10

SuffixLen == 4

\* The characters of a refresh credential: an ordinary character and the
\* character of its mask.
TokenChars == {"a", "."}

\* The client secrets: none, an ordinary character, the character of the
\* mask, both.
ClientSecrets == {<< >>, <<"a">>, <<"*">>, <<"a", "*">>}

\* The strings over an alphabet up to a length, as sequences of characters.
Strings(alphabet, n) == UNION {[1..k -> alphabet] : k \in 0..n}

\* The masks '...' and '***'.
Ellipsis == <<".", ".", ".">>

Stars == <<"*", "*", "*">>

\* Variant of redact_refresh_token that shows one more leading character.
redact_refresh_token_wide(t) ==
    IF Len(t) = 0 THEN t
    ELSE IF Len(t) > MaskThreshold
    THEN SubSeq(t, 1, PrefixLen + 1) \o Ellipsis
         \o SubSeq(t, Len(t) - SuffixLen + 1, Len(t))
    ELSE Stars

\* Lines 76-81: an empty credential is left as it is; a longer one shows
\* token[:10] + '...' + token[-4:], a shorter one '***'.
redact_refresh_token(t) ==
    IF Len(t) = 0 THEN t
    ELSE IF Len(t) > MaskThreshold
    THEN SubSeq(t, 1, PrefixLen) \o Ellipsis
         \o SubSeq(t, Len(t) - SuffixLen + 1, Len(t))
    ELSE Stars

\* Lines 82-83: a non-empty client secret is shown as '***'.
redact_client_secret(c) == IF Len(c) = 0 THEN c ELSE Stars

\* One account with some refresh credential and some client secret.
InitListing ==
    /\ InitServer
    /\ stream = NoStream
    /\ tool_results = NoToolResults
    /\ call = IdleCall
    /\ renewal = NoRenewal
    /\ listing \in {[NoListing EXCEPT !.refresh_token = t, !.client_secret = c] :
                       t \in Strings(TokenChars, MaxTokenLen),
                       c \in ClientSecrets}

\* get_all_accounts builds the view of the account.
get_all_accounts ==
    /\ ~listing.made
    /\ listing' = [listing EXCEPT
                      !.made = TRUE,
                      !.shown_token = redact_refresh_token(listing.refresh_token),
                      !.shown_secret = redact_client_secret(listing.client_secret)]
    /\ UNCHANGED <<disk, mem, secrets, nextId, config, tokens, rat, ra, report,
                   chat, sw, refresh_status, act, stream,
                   tool_results, call, renewal>>

NextListing == get_all_accounts

SpecListing == InitListing /\ [][NextListing]_vars

\* ------------------------------------------------------------ openai_stream

\* Bound: the number of event blocks of one backend stream.
MaxEvents == 3

\* The event blocks handle_amazonq_stream yields, by what openai_stream
\* distinguishes: a content_block_delta with its text (possibly empty), a
\* message_stop, an event of another type, a block without a data line, a
\* data line that is not JSON, and JSON that is not an object.
Events ==
    {[kind |-> "delta", text |-> t] : t \in {"", "hi", "!"}}
    \cup {[kind |-> k, text |-> ""] :
             k \in {"stop", "other", "nodata", "badjson", "nondict"}}

EventSeqs == UNION {[1..k -> Events] : k \in 0..MaxEvents}

\* The chunks of the output.
RoleChunk == [kind |-> "role", text |-> ""]

ContentChunk(t) == [kind |-> "content", text |-> t]

FinishChunk == [kind |-> "finish", text |-> ""]

DoneItem == [kind |-> "done", text |-> ""]

\* Variant of event_chunks that announces the role after the chunk of the
\* event.
event_chunks_role_last(ev, role_sent) ==
    IF ev.kind \in {"nodata", "badjson", "nondict"} THEN << >>
    ELSE (IF ev.kind = "delta" /\ ev.text # "" THEN <<ContentChunk(ev.text)>>
          ELSE IF ev.kind = "stop" THEN <<FinishChunk>>
          ELSE << >>)
         \o (IF role_sent THEN << >> ELSE <<RoleChunk>>)

\* Variant of event_chunks that also sends [DONE] on message_stop.
event_chunks_done_on_stop(ev, role_sent) ==
    IF ev.kind \in {"nodata", "badjson", "nondict"} THEN << >>
    ELSE (IF role_sent THEN << >> ELSE <<RoleChunk>>)
         \o (IF ev.kind = "delta" /\ ev.text # "" THEN <<ContentChunk(ev.text)>>
             ELSE IF ev.kind = "stop" THEN <<FinishChunk, DoneItem>>
             ELSE << >>)

\* Variant of event_chunks that sends a content chunk for every delta, also
\* one with an empty text.
event_chunks_empty_text(ev, role_sent) ==
    IF ev.kind \in {"nodata", "badjson", "nondict"} THEN << >>
    ELSE (IF role_sent THEN << >> ELSE <<RoleChunk>>)
         \o (IF ev.kind = "delta" THEN <<ContentChunk(ev.text)>>
             ELSE IF ev.kind = "stop" THEN <<FinishChunk>>
             ELSE << >>)

\* Variant of event_chunks that announces the role on a block without a
\* data line.
event_chunks_role_on_nodata(ev, role_sent) ==
    IF ev.kind \in {"badjson", "nondict"} THEN << >>
    ELSE (IF role_sent THEN << >> ELSE <<RoleChunk>>)
         \o (IF ev.kind = "delta" /\ ev.text # "" THEN <<ContentChunk(ev.text)>>
             ELSE IF ev.kind = "stop" THEN <<FinishChunk>>
             ELSE << >>)

\* Lines 597-667, the chunks one event block yields: none without a data
\* line (608-609) or for a data line that is not JSON (612, 665-667); else
\* the role chunk if it has not been sent (618-628), then the content chunk
\* of a delta with a non-empty text (631-647) or the finish chunk of a
\* message_stop (649-663).
event_chunks(ev, role_sent) ==
    IF ev.kind \in {"nodata", "badjson", "nondict"} THEN << >>
    ELSE (IF role_sent THEN << >> ELSE <<RoleChunk>>)
         \o (IF ev.kind = "delta" /\ ev.text # "" THEN <<ContentChunk(ev.text)>>
             ELSE IF ev.kind = "stop" THEN <<FinishChunk>>
             ELSE << >>)

\* A stream of some event blocks is about to be translated.
InitStream ==
    /\ InitServer
    /\ listing = NoListing
    /\ tool_results = NoToolResults
    /\ call = IdleCall
    /\ renewal = NoRenewal
    /\ stream \in {[NoStream EXCEPT !.pc = "run", !.input = e, !.events = e] :
                      e \in EventSeqs}

\* One iteration of the loop of line 590.  JSON that is not an object has no
\* .get (line 613): the AttributeError is not a JSONDecodeError and leaves
\* the generator, which ends the stream.
openai_stream_event ==
    /\ stream.pc = "run"
    /\ Len(stream.events) > 0
    /\ LET ev == Head(stream.events)
       IN  stream' =
             IF ev.kind = "nondict"
             THEN [stream EXCEPT !.pc = "done", !.raised = TRUE,
                                 !.events = Tail(stream.events)]
             ELSE [stream EXCEPT
                     !.events = Tail(stream.events),
                     !.out = stream.out \o event_chunks(ev, stream.role_sent),
                     !.role_sent = stream.role_sent
                                   \/ ev.kind \notin {"nodata", "badjson"}]
    /\ UNCHANGED <<disk, mem, secrets, nextId, config, tokens, rat, ra, report,
                   chat, sw, refresh_status, act, listing,
                   tool_results, call, renewal>>

\* Lines 669-671: the backend stream is exhausted, [DONE] is sent.
openai_stream_end ==
    /\ stream.pc = "run"
    /\ Len(stream.events) = 0
    /\ stream' = [stream EXCEPT !.pc = "done", !.out = Append(stream.out, DoneItem)]
    /\ UNCHANGED <<disk, mem, secrets, nextId, config, tokens, rat, ra, report,
                   chat, sw, refresh_status, act, listing,
                   tool_results, call, renewal>>

\* Lines 585-671 as a function of the event blocks still to come: what the
\* generator yields for them when no block holds JSON that is not an object.
RECURSIVE openai_stream_output(_, _)
openai_stream_output(events, role_sent) ==
    IF events = << >> THEN <<DoneItem>>
    ELSE event_chunks(Head(events), role_sent)
         \o openai_stream_output(Tail(events),
                role_sent \/ Head(events).kind \notin {"nodata", "badjson"})

NextStream ==
    \/ openai_stream_event
    \/ openai_stream_end

SpecStream == InitStream /\ [][NextStream]_vars

\* ------------------------------------------------------------ toolResults

\* Bound: the number of tool-result records of the current turn.
MaxToolResults == 3

\* toolUseId values; "None" is the value of result.get("toolUseId") for a
\* record without the key.
ToolUseIds == {"t1", "t2", "None"}

\* Content lists of a record.
Contents == {<< >>, <<"X">>, <<"Y">>, <<"X", "Y">>}

ToolResults == [toolUseId : ToolUseIds, content : Contents]

ToolResultLists == UNION {[1..k -> ToolResults] : k \in 0..MaxToolResults}

\* Variant of merge_tool_result in which the content of a later record with
\* a seen id replaces the content kept so far.
merge_tool_result_replace(merged, seen, result) ==
    IF result.toolUseId \in seen
    THEN [i \in 1..Len(merged) |->
            IF merged[i].toolUseId = result.toolUseId
            THEN [merged[i] EXCEPT !.content = result.content]
            ELSE merged[i]]
    ELSE Append(merged, result)

\* Lines 869-880, the body of `for result in tool_results`: a record with a
\* seen id extends the content of the first merged record with that id, a
\* record with a new id is appended.
merge_tool_result(merged, seen, result) ==
    IF result.toolUseId \in seen
    THEN LET hits == {i \in 1..Len(merged) :
                         merged[i].toolUseId = result.toolUseId}
         IN  [i \in 1..Len(merged) |->
                IF i \in hits /\ \A j \in hits : i <= j
                THEN [merged[i] EXCEPT !.content = @ \o result.content]
                ELSE merged[i]]
    ELSE Append(merged, result)

\* The toolResults list of the translated request, before the merge.
InitToolResults ==
    /\ InitServer
    /\ listing = NoListing
    /\ stream = NoStream
    /\ call = IdleCall
    /\ renewal = NoRenewal
    /\ tool_results \in {[NoToolResults EXCEPT !.pc = "loop", !.input = l,
                                                !.rest = l, !.out = l] :
                             l \in ToolResultLists}

\* One iteration of the loop of line 868.
create_message_merge_tool_result ==
    /\ tool_results.pc = "loop"
    /\ Len(tool_results.input) > 0
    /\ Len(tool_results.rest) > 0
    /\ LET result == Head(tool_results.rest)
       IN  tool_results' =
             [tool_results EXCEPT
                !.rest = Tail(tool_results.rest),
                !.merged = merge_tool_result(tool_results.merged,
                                             tool_results.seen, result),
                !.seen = tool_results.seen \cup {result.toolUseId}]
    /\ UNCHANGED <<disk, mem, secrets, nextId, config, tokens, rat, ra, report,
                   chat, sw, refresh_status, act, listing, stream, call, renewal>>

\* Line 864 with an empty list (the request keeps it), or line 882 after the
\* loop: the merged list is stored in the request.
create_message_store_tool_results ==
    /\ tool_results.pc = "loop"
    /\ Len(tool_results.rest) = 0
    /\ tool_results' =
         [tool_results EXCEPT
            !.pc = "done",
            !.out = IF Len(tool_results.input) = 0 THEN tool_results.input
                    ELSE tool_results.merged]
    /\ UNCHANGED <<disk, mem, secrets, nextId, config, tokens, rat, ra, report,
                   chat, sw, refresh_status, act, listing, stream, call, renewal>>

NextToolResults ==
    \/ create_message_merge_tool_result
    \/ create_message_store_tool_results

SpecToolResults == InitToolResults /\ [][NextToolResults]_vars

\* ------------------------------------------------------------ chat call

\* Bound: the number of turns of the translated history.
MaxHistory == 3

\* Bound: the number of content deltas of one backend response.
MaxDeltas == 2

Roles == {"user", "assistant"}

\* Translated histories: turn i carries the one content entry i.
Histories ==
    UNION {{[i \in 1..k |-> [role |-> r[i], content |-> <<i>>]] :
               r \in [1..k -> Roles]} : k \in 0..MaxHistory}

\* The texts of the content deltas the backend response decodes to.
DeltaSeqs == UNION {[1..k -> {"hi", "!"}] : k \in 0..MaxDeltas}

\* The backend call: status 200, another status, or a transport error.
BackendOutcomes == {"200", "status", "transport"}

\* process_claude_history_for_amazonq(history): adjacent turns of one
\* speaker become one turn that holds the content of both.
RECURSIVE process_claude_history_for_amazonq(_)
process_claude_history_for_amazonq(history) ==
    IF Len(history) <= 1 THEN history
    ELSE LET m == process_claude_history_for_amazonq(Tail(history))
         IN  IF Head(history).role = Head(m).role
             THEN <<[role |-> Head(m).role,
                     content |-> Head(history).content \o Head(m).content]>>
                  \o Tail(m)
             ELSE <<Head(history)>> \o m

\* A request has arrived and the converter has produced its history.
InitCall ==
    /\ InitServer
    /\ listing = NoListing
    /\ stream = NoStream
    /\ tool_results = NoToolResults
    /\ renewal = NoRenewal
    /\ call \in {[IdleCall EXCEPT !.pc = "request", !.endpoint = e,
                                   !.do_stream = d, !.backend = b,
                                   !.history = h, !.deltas = t] :
                     e \in {"chat_completions", "messages"},
                     d \in BOOLEAN, b \in BackendOutcomes,
                     h \in Histories, t \in DeltaSeqs}

\* POST /v1/chat/completions, lines 476-681.  The converted request goes to
\* the backend as it is (no call of the history merge).  Without streaming
\* the backend call is made in the handler: a status other than 200 raises
\* HTTPException (line 541), a transport error becomes a 500 (line 686), and
\* a 200 is answered with full_text, which the loop of lines 551-555 leaves
\* empty.  With streaming the handler returns the StreamingResponse; no
\* backend call has been made.
chat_completions ==
    /\ call.pc = "request"
    /\ call.endpoint = "chat_completions"
    /\ call' =
         IF call.do_stream
         THEN [call EXCEPT !.pc = "returned", !.sent_history = call.history]
         ELSE [call EXCEPT !.pc = "done", !.sent = TRUE,
                           !.sent_history = call.history,
                           !.error = (call.backend # "200"),
                           !.content = ""]
    /\ UNCHANGED <<disk, mem, secrets, nextId, config, tokens, rat, ra, report,
                   chat, sw, refresh_status, act, listing, stream,
                   tool_results, renewal>>

\* POST /v1/messages, lines 810-961: the history, when not empty, goes
\* through process_claude_history_for_amazonq (lines 838-855); the handler
\* returns the StreamingResponse whatever the stream flag of the request.
create_message ==
    /\ call.pc = "request"
    /\ call.endpoint = "messages"
    /\ call' = [call EXCEPT
                  !.pc = "returned",
                  !.sent_history =
                     IF call.history # << >>
                     THEN process_claude_history_for_amazonq(call.history)
                     ELSE call.history]
    /\ UNCHANGED <<disk, mem, secrets, nextId, config, tokens, rat, ra, report,
                   chat, sw, refresh_status, act, listing, stream,
                   tool_results, renewal>>

\* The StreamingResponse returned at lines 673 and 953 starts: the status
\* line 200 and the headers go to the caller; the generator has not run.
streaming_response_start ==
    /\ call.pc = "returned"
    /\ call' = [call EXCEPT !.pc = "started", !.started = TRUE]
    /\ UNCHANGED <<disk, mem, secrets, nextId, config, tokens, rat, ra, report,
                   chat, sw, refresh_status, act, listing, stream,
                   tool_results, renewal>>

\* byte_stream() is iterated for the first time (lines 565-579, 921-946):
\* the backend call is made.  A status other than 200 raises HTTPException
\* inside the generator; a transport error raises httpx.RequestError
\* (chat_completions) or the HTTPException 502 of line 946 (create_message).
byte_stream ==
    /\ call.pc = "started"
    /\ call' = IF call.backend = "200"
               THEN [call EXCEPT !.pc = "body", !.sent = TRUE,
                                 !.rest = call.deltas]
               ELSE [call EXCEPT !.pc = "done", !.sent = TRUE,
                                 !.error = TRUE]
    /\ UNCHANGED <<disk, mem, secrets, nextId, config, tokens, rat, ra, report,
                   chat, sw, refresh_status, act, listing, stream,
                   tool_results, renewal>>

\* One content delta of the backend response is passed on.
byte_stream_chunk ==
    /\ call.pc = "body"
    /\ Len(call.rest) > 0
    /\ call' = [call EXCEPT !.rest = Tail(call.rest),
                            !.body = Append(call.body, Head(call.rest))]
    /\ UNCHANGED <<disk, mem, secrets, nextId, config, tokens, rat, ra, report,
                   chat, sw, refresh_status, act, listing, stream,
                   tool_results, renewal>>

\* The backend response is exhausted.
byte_stream_end ==
    /\ call.pc = "body"
    /\ Len(call.rest) = 0
    /\ call' = [call EXCEPT !.pc = "done"]
    /\ UNCHANGED <<disk, mem, secrets, nextId, config, tokens, rat, ra, report,
                   chat, sw, refresh_status, act, listing, stream,
                   tool_results, renewal>>

NextCall ==
    \/ chat_completions
    \/ create_message
    \/ streaming_response_start
    \/ byte_stream
    \/ byte_stream_chunk
    \/ byte_stream_end

SpecCall == InitCall /\ [][NextCall]_vars

\* ------------------------------------------------------------ token response

\* The lifetime of an access token whose response names none (auth.py:79).
DefaultExpiresIn == 3600

\* Values of response_data.get(...): << >> is None, <<v>> the value v.
TokenResponses ==
    [accessToken : {<< >>, <<"">>, <<"at1">>},
     refreshToken : {<< >>, <<"">>, <<"rt1">>},
     expiresIn : {<< >>, <<0>>, <<900>>}]

\* The session before the renewal: the refresh credential of the account
\* and, if one was obtained earlier, an access token with its lifetime.
Sessions ==
    {[access_token |-> << >>, refresh_token |-> <<"rt0">>, expires_in |-> << >>],
     [access_token |-> <<"at0">>, refresh_token |-> <<"rt0">>,
      expires_in |-> <<DefaultExpiresIn>>]}

\* Python truth of an optional string and of an optional number.
TruthyText(v) == v # << >> /\ v[1] # ""

TruthyNumber(v) == v # << >> /\ v[1] # 0

\* Variant of refresh_token_kwargs that never passes the returned refresh
\* token on.
refresh_token_kwargs_keep_old(response) ==
    [access_token |-> response.accessToken,
     refresh_token |-> << >>,
     expires_in |-> IF TruthyNumber(response.expiresIn)
                    THEN response.expiresIn[1] ELSE DefaultExpiresIn]

\* auth.py lines 76-80, the arguments of update_global_config.
refresh_token_kwargs(response) ==
    [access_token |-> response.accessToken,
     refresh_token |-> IF TruthyText(response.refreshToken)
                       THEN response.refreshToken ELSE << >>,
     expires_in |-> IF TruthyNumber(response.expiresIn)
                    THEN response.expiresIn[1] ELSE DefaultExpiresIn]

\* update_global_config(access_token, refresh_token, expires_in) on the
\* fields of the session: the access token and its lifetime are stored, the
\* refresh credential is replaced when one is given.
update_global_config_fields(session, kw) ==
    [access_token |-> kw.access_token,
     refresh_token |-> IF kw.refresh_token # << >> THEN kw.refresh_token
                       ELSE session.refresh_token,
     expires_in |-> <<kw.expires_in>>]

\* refresh_token() has sent its request (auth.py:55).
InitRenewal ==
    /\ InitServer
    /\ listing = NoListing
    /\ stream = NoStream
    /\ tool_results = NoToolResults
    /\ call = IdleCall
    /\ renewal \in {[NoRenewal EXCEPT !.pc = "post", !.status = st,
                                       !.response = r, !.before = c,
                                       !.session = c] :
                        st \in {"200", "error"}, r \in TokenResponses,
                        c \in Sessions}

\* auth.py lines 62-83: raise_for_status(), the three fields of the
\* response, TokenRefreshError without an access token, otherwise
\* update_global_config.
refresh_token_response ==
    /\ renewal.pc = "post"
    /\ renewal' =
         IF renewal.status # "200" \/ ~TruthyText(renewal.response.accessToken)
         THEN [renewal EXCEPT !.pc = "done", !.raised = TRUE]
         ELSE [renewal EXCEPT
                 !.pc = "done",
                 !.session = update_global_config_fields(
                                 renewal.session,
                                 refresh_token_kwargs(renewal.response))]
    /\ UNCHANGED <<disk, mem, secrets, nextId, config, tokens, rat, ra, report,
                   chat, sw, refresh_status, act, listing, stream,
                   tool_results, call>>

NextRenewal == refresh_token_response

SpecRenewal == InitRenewal /\ [][NextRenewal]_vars

\* ------------------------------------------------------------ properties

\* What a read of the pool (GET /api/accounts, reloading account.json) shows
\* as the active account.
ShownActive == FirstFlagged(disk)

\* C1: after any sequence of add_account, activate_account and
\* delete_account calls (unknown ids and failed saves included), a non-empty
\* pool has exactly one account with is_active = true, in manager.accounts
\* and in account.json.
C1_ExactlyOneActive ==
    /\ Len(mem) > 0 => NumActive(mem) = 1
    /\ Len(disk) > 0 => NumActive(disk) = 1

\* C1 witness: the first account was deleted and a later, not first, account
\* was activated.
C1_Witness ==
    /\ Len(disk) = 2
    /\ disk[1].id = 2
    /\ disk[2].is_active
    /\ mem = disk

\* C3: two account-switch sequences (a single renewal and a bulk renewal,
\* acting as different accounts) are never in progress at the same time.
C3_SwitchSequencesExclusive ==
    ~(/\ rat.pc = "await"
      /\ ra.pc = "await"
      /\ rat.t # Captured(ra, mem)[ra.idx])

\* C4: a chat request that obtains its bearer token (or sends a renewal
\* request) while a single renewal of an account other than the shown active
\* one is in progress uses the token (the credentials) of the account shown
\* as active.
C4_ChatUsesSelectedAccount ==
    [][(/\ chat.pc = "idle"
        /\ chat'.pc # "idle"
        /\ rat.pc = "await"
        /\ rat.t # ShownActive)
       => /\ chat'.pc = "call" => chat'.tok = ShownActive
          /\ chat'.pc = "await" => chat'.req = ShownActive]_vars

\* C5: the renewal request whose outcome a switch sequence records against
\* an account of the pool carries the credentials of that account.
C5_RequestCarriesOwnCredentials ==
    /\ rat.pc = "await" => rat.req = rat.t
    /\ (ra.pc = "await" /\ Captured(ra, mem)[ra.idx] \in IdSet(disk))
       => ra.req = Captured(ra, mem)[ra.idx]

\* C6: when a single renewal of T returns (after a successful or a failed
\* refresh) and no other request changed the selection meanwhile, the next
\* read shows the account that was active before the call as active (T when
\* none was), and never a non-empty pool without an active account.
C6_RestoredAfterSingleRenewal ==
    [][(rat.pc = "await" /\ rat'.pc = "idle" /\ rat.quiet)
       => /\ ShownActive' = (IF rat.old # 0 THEN rat.old ELSE rat.t)
          /\ Len(disk') > 0 => NumActive(disk') >= 1]_vars

\* C7: in a bulk refresh every account lacking a secret is reported skipped
\* and no request is sent for it, every complete account gets a renewal
\* attempt, and when the handler returns (no other request having changed
\* the selection meanwhile) the next read shows the previously active
\* account as active.
C7_BulkSkipsAndRestores ==
    /\ [](report.made =>
            /\ \A k \in 1..Len(report.results) :
                 report.results[k].id \notin secrets
                 => /\ report.results[k].status = "skipped"
                    /\ report.results[k].id \notin report.attempted
            /\ \A k \in 1..Len(report.accounts) :
                 report.accounts[k] \in secrets
                 => report.accounts[k] \in report.attempted)
    /\ [][(ra.pc = "await" /\ ra'.pc = "idle" /\ ra.quiet /\ ra.old # 0)
          => ShownActive' = ra.old]_vars

\* C8: bulk renewal never stops early: whatever the refresh results are, and
\* although recording an outcome fails, the results hold exactly one entry
\* per account of the handler's list, in the order of the list (at each
\* suspension for the accounts before the current one, in the report for
\* all).
C8_OneEntryPerAccount ==
    /\ ra.pc = "await"
       => Ids(ra.results) = SubSeq(Captured(ra, mem), 1, ra.idx - 1)
    /\ report.made => Ids(report.results) = report.accounts

\* C8 witness: a report over three accounts, the second one skipped, the
\* others attempted with the outcome recording failed.
C8_Witness ==
    /\ report.made
    /\ Len(report.results) = 3
    /\ report.results[1].status = "error"
    /\ report.results[2].status = "skipped"
    /\ report.results[3].status = "error"

\* The last-refresh timestamp of an account is absent: Account has no such
\* field.
Stale(id) == ~HasField("last_refresh_time")

\* C9: in a sweep cycle, when the processing of one account failed, every
\* later account of the cycle was still examined and, being stale, renewed.
C9_FailureDoesNotStopCycle ==
    sw.pc = "sleep"
    => \A j, k \in 1..Len(sw.snap) :
         (j < k /\ sw.snap[j] \in sw.failed)
         => /\ sw.snap[k] \in sw.examined
            /\ Stale(sw.snap[k]) => sw.snap[k] \in sw.renewed

\* C10: in every sweep cycle each account whose last-refresh timestamp is
\* absent or older than the threshold gets a renewal attempt, and only those.
C10_StaleAccountsRenewed ==
    sw.pc = "sleep"
    => \A k \in 1..Len(sw.snap) :
         Stale(sw.snap[k]) <=> sw.snap[k] \in sw.renewed

\* C11: every failed renewal is recorded as outcome "failed" against the
\* account that was being renewed before the error reaches the caller: the
\* on-demand renewal of ensure_valid_token (chat) and the single renewal.
\* (A renewal has failed when the handler leaves its suspension and the slot
\* of the request holds no token.)
C11_FailedRenewalRecorded ==
    [][/\ (chat.pc = "await" /\ chat'.pc = "idle" /\ chat.req \notin tokens')
          => [id |-> chat.req, status |-> "failed"] \in refresh_status'
       /\ (rat.pc = "await" /\ rat'.pc = "idle" /\ rat.req \notin tokens')
          => [id |-> rat.t, status |-> "failed"] \in refresh_status']_vars

\* The account of the session a read_global_config() would return now.
SessionAccount == read_global_config(config, mem).acct

\* C12: ensure_valid_token sends a renewal request exactly when the token of
\* the session is absent or expired; it returns a present, unexpired token
\* without a request; after a renewal it returns the token obtained by that
\* renewal; it never returns when no token is available.
C12_EnsureValidToken ==
    [][/\ (chat.pc = "idle" /\ chat'.pc = "call")
          => /\ SessionAccount \in tokens
             /\ chat'.tok = SessionAccount
             /\ chat'.req = 0
       /\ (chat.pc = "idle" /\ chat'.pc = "await")
          => /\ SessionAccount \notin tokens
             /\ chat'.req = SessionAccount
       /\ (chat.pc = "idle" /\ SessionAccount # 0 /\ chat' # chat)
          => chat'.pc = (IF SessionAccount \in tokens THEN "call" ELSE "await")
       /\ (chat.pc = "await" /\ chat'.pc = "call")
          => /\ chat'.tok = chat.req
             /\ chat'.tok \in tokens']_vars

\* C13: a mutating store operation whose save_accounts fails rolls back:
\* the in-memory pool after the call is the in-memory pool before it.
C13_CommitOrRollBack ==
    [][\A o \in SaveOutcomes \ {"ok"} :
         /\ \A has \in BOOLEAN : api_add_account(has, o) => mem' = mem
         /\ \A id \in IdSet(disk) :
              (api_delete_account(id, o) \/ api_activate_account(id, o))
              => mem' = mem]_vars

\* C14: while the sweep thread works on manager.accounts (its list is the
\* manager's list), a non-empty pool has exactly one active account, also
\* between the statements of activate_account.
C14_ActivateAtomicForReaders ==
    (sw.pc = "cycle" /\ sw.alias /\ Len(mem) > 0) => NumActive(mem) = 1

\* C15: delete_account(id) with an absent id changes nothing (the pool is
\* the file's); otherwise exactly that account is removed, the order of the
\* others is kept, the first remaining account becomes the active one when
\* the removed account was the active one, the active account is unchanged
\* when it was not, and a successful save writes the result.
C15_DeleteAccount ==
    [][\A id \in AccountIds, o \in SaveOutcomes :
         api_delete_account(id, o)
         => IF id \notin IdSet(disk)
            THEN disk' = disk /\ mem' = disk
            ELSE /\ Ids(mem') = SelectSeq(Ids(disk), LAMBDA x : x # id)
                 /\ (id = FirstFlagged(disk) /\ Len(mem') > 0)
                    => /\ mem'[1].is_active
                       /\ NumActive(mem') = 1
                 /\ id # FirstFlagged(disk)
                    => /\ FirstFlagged(mem') = FirstFlagged(disk)
                       /\ NumActive(mem') = NumActive(disk)
                 /\ o = "ok" => disk' = mem']_vars

\* C15 witness: the first account, active, has been deleted from a pool of
\* three and the second account has become the active one.
C15_Witness ==
    /\ nextId = 4
    /\ Ids(disk) = <<2, 3>>
    /\ disk[1].is_active
    /\ ~disk[2].is_active
    /\ mem = disk

\* C16: activating the account that is already the active one (the save not
\* failing halfway) leaves the pool as it is: the file is unchanged, the
\* memory equals the file, the same id is active and it is the only one.
C16_ActivateIdempotent ==
    [][\A id \in AccountIds, o \in {"ok", "open_fail"} :
         (/\ api_activate_account(id, o)
          /\ id = FirstFlagged(disk)
          /\ NumActive(disk) = 1)
         => /\ disk' = disk
            /\ mem' = disk
            /\ FirstFlagged(mem') = id
            /\ NumActive(mem') = 1]_vars

\* C16 witness: the pool an activation of the second of two accounts leaves
\* (and leaves again when repeated): the second account is the only active
\* one, the memory equals the file and the session has been reset.
C16_Witness ==
    /\ Len(disk) = 2
    /\ disk[2].is_active
    /\ ~disk[1].is_active
    /\ mem = disk
    /\ config = NoConfig

\* sub occurs in seq as a contiguous substring.
Occurs(sub, seq) ==
    \E i \in 1..(Len(seq) - Len(sub) + 1) : SubSeq(seq, i, i + Len(sub) - 1) = sub

\* Some contiguous substring of t longer than the reveal window occurs in
\* the view v.
Leaks(t, v) ==
    \E n \in (PrefixLen + 1)..Len(t), i \in 1..Len(t) :
        i + n - 1 <= Len(t) /\ Occurs(SubSeq(t, i, i + n - 1), v)

\* The shape of the view: first 10 and last 4 characters around '...' for a
\* credential longer than 14, '***' for a shorter non-empty one; '***' for a
\* non-empty client secret.
ViewShape ==
    LET t == listing.refresh_token
        c == listing.client_secret
    IN  /\ Len(t) > MaskThreshold
           => /\ Len(listing.shown_token) = PrefixLen + 3 + SuffixLen
              /\ SubSeq(listing.shown_token, 1, PrefixLen) = SubSeq(t, 1, PrefixLen)
              /\ SubSeq(listing.shown_token, PrefixLen + 1, PrefixLen + 3) = Ellipsis
              /\ SubSeq(listing.shown_token, PrefixLen + 4, PrefixLen + 3 + SuffixLen)
                 = SubSeq(t, Len(t) - SuffixLen + 1, Len(t))
        /\ (0 < Len(t) /\ Len(t) <= MaskThreshold) => listing.shown_token = Stars
        /\ Len(t) = 0 => listing.shown_token = << >>
        /\ listing.shown_secret = (IF Len(c) = 0 THEN << >> ELSE Stars)

\* C17 as stated: the view has the shape above, no contiguous substring of
\* the refresh credential longer than the reveal window occurs in its view,
\* and no character of the client secret occurs in its view.
C17_ListingRedacted ==
    listing.made
    => /\ ViewShape
       /\ ~Leaks(listing.refresh_token, listing.shown_token)
       /\ \A i \in 1..Len(listing.client_secret) :
             ~Occurs(<<listing.client_secret[i]>>, listing.shown_secret)

\* C17 amended: the same for secrets that do not contain the character of
\* their mask; a secret that does can coincide with its own view.
C17_ListingRedactedUnlessMasked ==
    listing.made
    => /\ ViewShape
       /\ (\A i \in 1..Len(listing.refresh_token) : listing.refresh_token[i] # ".")
          => ~Leaks(listing.refresh_token, listing.shown_token)
       /\ (\A i \in 1..Len(listing.client_secret) : listing.client_secret[i] # "*")
          => \A i \in 1..Len(listing.client_secret) :
               ~Occurs(<<listing.client_secret[i]>>, listing.shown_secret)

\* C17 witness: the view of a credential of fifteen ordinary characters and
\* of a one-character client secret.
C17_Witness ==
    /\ listing.made
    /\ listing.refresh_token = [k \in 1..15 |-> "a"]
    /\ listing.shown_token = [k \in 1..17 |-> IF k \in 11..13 THEN "." ELSE "a"]
    /\ listing.client_secret = <<"a">>
    /\ listing.shown_secret = Stars

\* C18: the profile identifier in the payload of a backend chat call and the
\* bearer token sent with it belong to the same account.
C18_OneAccountPerCall ==
    chat.pc = "call" => chat.profile = chat.tok

\* The content and finish chunks the events of the input call for, in the
\* order of arrival: one content chunk per delta with a non-empty text, one
\* finish chunk per message_stop.
ExpectedChunks ==
    LET rel == SelectSeq(stream.input,
                         LAMBDA e : (e.kind = "delta" /\ e.text # "")
                                    \/ e.kind = "stop")
    IN  [i \in 1..Len(rel) |->
            IF rel[i].kind = "delta" THEN ContentChunk(rel[i].text)
            ELSE FinishChunk]

\* Every content chunk of the output has a role chunk before it.
RoleBeforeContent ==
    \A i \in 1..Len(stream.out) :
        stream.out[i].kind = "content"
        => \E j \in 1..(i - 1) : stream.out[j].kind = "role"

\* C19: for a sequence of event blocks whose data, where present and JSON,
\* is an object, the translated stream keeps the order of arrival: its
\* content and finish chunks are those of the deltas and message_stops in
\* input order, a role chunk precedes the first content chunk, [DONE] is the
\* last item and the only one; [delta(hi), delta(!), message_stop] gives
\* exactly role, content hi, content !, finish, [DONE].
C19_StreamOrderPreserved ==
    (/\ stream.pc = "done"
     /\ \A i \in 1..Len(stream.input) : stream.input[i].kind # "nondict")
    => /\ SelectSeq(stream.out, LAMBDA c : c.kind \in {"content", "finish"})
          = ExpectedChunks
       /\ RoleBeforeContent
       /\ Len(stream.out) > 0
       /\ stream.out[Len(stream.out)] = DoneItem
       /\ \A i \in 1..(Len(stream.out) - 1) : stream.out[i].kind # "done"
       /\ stream.input = <<[kind |-> "delta", text |-> "hi"],
                           [kind |-> "delta", text |-> "!"],
                           [kind |-> "stop", text |-> ""]>>
          => stream.out = <<RoleChunk, ContentChunk("hi"), ContentChunk("!"),
                            FinishChunk, DoneItem>>

\* C19 witness: the stream of [delta(hi), delta(!), message_stop] has been
\* translated to the five items.
C19_Witness ==
    /\ stream.pc = "done"
    /\ stream.input = <<[kind |-> "delta", text |-> "hi"],
                        [kind |-> "delta", text |-> "!"],
                        [kind |-> "stop", text |-> ""]>>
    /\ Len(stream.out) = 5
    /\ stream.out[1] = RoleChunk
    /\ stream.out[5] = DoneItem

\* C20: whatever the event blocks are, the translated stream holds exactly
\* one role chunk, before the first content chunk.
C20_ExactlyOneRoleChunk ==
    stream.pc = "done"
    => /\ Cardinality({i \in 1..Len(stream.out) : stream.out[i].kind = "role"}) = 1
       /\ RoleBeforeContent

\* The positions of the output that hold a chunk of a kind.
ChunksOf(kind) == {i \in 1..Len(stream.out) : stream.out[i].kind = kind}

\* The input holds no JSON that is not an object.
ObjectsOnly == \A i \in 1..Len(stream.input) : stream.input[i].kind # "nondict"

\* C21: the translated stream holds exactly one finish chunk when a
\* message_stop was among the events, however many arrived, and none
\* otherwise.
C21_ExactlyOneFinishChunk ==
    (stream.pc = "done" /\ ObjectsOnly)
    => Cardinality(ChunksOf("finish"))
       = (IF \E i \in 1..Len(stream.input) : stream.input[i].kind = "stop"
          THEN 1 ELSE 0)

\* C22: when the backend stream has ended, the output ends with [DONE] and
\* holds no other [DONE], with or without a message_stop among the events.
C22_DoneSentinelLast ==
    (stream.pc = "done" /\ ~stream.raised)
    => /\ ChunksOf("done") = {Len(stream.out)}
       /\ Len(stream.out) > 0

\* C22 witness: a stream without message_stop has ended with [DONE].
C22_Witness ==
    /\ stream.pc = "done"
    /\ stream.input = <<[kind |-> "delta", text |-> "hi"]>>
    /\ stream.out = <<RoleChunk, ContentChunk("hi"), DoneItem>>

\* The event blocks the generator has taken from the backend stream so far.
Consumed == SubSeq(stream.input, 1, Len(stream.input) - Len(stream.events))

\* C29: at every point of the translation the content chunks sent so far are,
\* one for one and with the same text, the content_block_delta events with a
\* non-empty text taken so far; a delta with an empty or missing text and an
\* event of another type yield no content chunk.
C29_ContentChunkPerTextDelta ==
    LET deltas == SelectSeq(Consumed,
                            LAMBDA e : e.kind = "delta" /\ e.text # "")
        chunks == SelectSeq(stream.out, LAMBDA c : c.kind = "content")
    IN  /\ Len(chunks) = Len(deltas)
        /\ \A i \in 1..Len(chunks) : chunks[i].text = deltas[i].text

\* C29 witness: of a delta without text, an event of another type and a delta
\* with the text hi only the last has given a content chunk.
C29_Witness ==
    /\ stream.pc = "done"
    /\ stream.input = <<[kind |-> "delta", text |-> ""],
                        [kind |-> "other", text |-> ""],
                        [kind |-> "delta", text |-> "hi"]>>
    /\ stream.out = <<RoleChunk, ContentChunk("hi"), DoneItem>>

\* An event block with a data line that holds JSON.
WellFormed(ev) == ev.kind \notin {"nodata", "badjson"}

\* C30: an event block without a data line, or with a data line that is not
\* JSON, is skipped and does not end the output: the translated stream is the
\* one the well-formed blocks alone give, [DONE] included.
C30_MalformedBlockSkipped ==
    (stream.pc = "done" /\ ObjectsOnly)
    => /\ stream.out
          = openai_stream_output(SelectSeq(stream.input, WellFormed), FALSE)
       /\ stream.out[Len(stream.out)] = DoneItem

\* C30 witness: after a block without a data line and a block that is not
\* JSON the delta that follows was translated and [DONE] sent.
C30_Witness ==
    /\ stream.pc = "done"
    /\ stream.input = <<[kind |-> "nodata", text |-> ""],
                        [kind |-> "badjson", text |-> ""],
                        [kind |-> "delta", text |-> "hi"]>>
    /\ stream.out = <<RoleChunk, ContentChunk("hi"), DoneItem>>

\* The content entries of the records of a list that carry an id, in order.
RECURSIVE ContentOf(_, _)
ContentOf(id, records) ==
    IF records = << >> THEN << >>
    ELSE (IF Head(records).toolUseId = id THEN Head(records).content ELSE << >>)
         \o ContentOf(id, Tail(records))

\* The ids of a list in the order of their first occurrence.
RECURSIVE FirstOccurrences(_, _)
FirstOccurrences(records, seen) ==
    IF records = << >> THEN << >>
    ELSE IF Head(records).toolUseId \in seen
         THEN FirstOccurrences(Tail(records), seen)
         ELSE <<Head(records).toolUseId>>
              \o FirstOccurrences(Tail(records),
                                  seen \cup {Head(records).toolUseId})

\* C25: after the merge the toolResults of the current turn hold one record
\* per toolUseId, in the order in which the ids first occurred, and the
\* content of each record is the content of all the records of the request
\* with that id, in their order: no entry lost, none twice.
C25_ToolResultsUniqueById ==
    tool_results.pc = "done"
    => LET out == tool_results.out
       IN  /\ [i \in 1..Len(out) |-> out[i].toolUseId]
              = FirstOccurrences(tool_results.input, {})
           /\ \A i, j \in 1..Len(out) :
                 out[i].toolUseId = out[j].toolUseId => i = j
           /\ \A i \in 1..Len(out) :
                 out[i].content
                 = ContentOf(out[i].toolUseId, tool_results.input)

\* C25 witness: of three records two carry t1; the merged list holds t1 with
\* both contents, then t2.
C25_Witness ==
    /\ tool_results.pc = "done"
    /\ tool_results.input = <<[toolUseId |-> "t1", content |-> <<"X">>],
                              [toolUseId |-> "t2", content |-> <<"Y">>],
                              [toolUseId |-> "t1", content |-> <<"Y">>]>>
    /\ tool_results.out = <<[toolUseId |-> "t1", content |-> <<"X", "Y">>],
                            [toolUseId |-> "t2", content |-> <<"Y">>]>>

\* C23: for a streaming chat call a failure of the backend call (a status
\* other than 2xx, a transport error) reaches the caller before any part of
\* the streamed response, the status line included, has been sent.
C23_BackendErrorBeforeResponse ==
    (call.error /\ (call.endpoint = "messages" \/ call.do_stream))
    => ~call.started

\* The texts of a sequence joined in order.
RECURSIVE ConcatText(_)
ConcatText(texts) ==
    IF texts = << >> THEN "" ELSE Head(texts) \o ConcatText(Tail(texts))

\* C24: the answer to a non-streaming chat completion carries as message
\* content the texts of the content deltas of its one backend call, joined
\* in the order of arrival.
C24_AggregateContent ==
    (/\ call.pc = "done"
     /\ call.endpoint = "chat_completions"
     /\ ~call.do_stream
     /\ ~call.error)
    => call.content = ConcatText(call.deltas)

\* C26: for either endpoint the history of a request sent to the backend
\* holds no two adjacent turns of the same speaker.
C26_HistoryMergedForBothFormats ==
    call.sent
    => \A i \in 1..(Len(call.sent_history) - 1) :
          call.sent_history[i].role # call.sent_history[i + 1].role

\* A renewal has returned True.
Renewed == renewal.pc = "done" /\ ~renewal.raised

\* The access token and the refresh credential of the session after a
\* successful renewal: the returned accessToken; the returned refreshToken
\* when there is one, the credential held before otherwise.
TokensAfterRenewal ==
    /\ renewal.session.access_token = renewal.response.accessToken
    /\ renewal.session.refresh_token
       = (IF TruthyText(renewal.response.refreshToken)
          THEN renewal.response.refreshToken
          ELSE renewal.before.refresh_token)

C31_ReadEqualsPersistedPool ==
    [][(\/ api_get_accounts
        \/ manager_get_active_account
        \/ \E id \in AccountIds : manager_get_account_by_id(id))
       => /\ mem' = disk'
          /\ get_active_account(mem') = get_active_account(disk')]_vars

\* C31 witness: a single renewal of account 2 is in flight, it made account
\* 2 the active one in memory only, and a read has put the pool of the file,
\* with account 1 active, back in memory.
C31_Witness ==
    /\ rat.pc = "await"
    /\ rat.t = 2
    /\ rat.quiet
    /\ get_active_account(disk) = 1
    /\ mem = disk

\* C32: in every report of a bulk renewal total is the number of accounts of
\* the handler's list and the number of result entries, success_count and
\* failed_count add up to total, success_count counts the entries with the
\* status success, and the skipped and error entries are in failed_count.
C32_ReportCountsConsistent ==
    report.made
    => /\ report.total = Len(report.accounts)
       /\ report.total = Len(report.results)
       /\ report.success_count + report.failed_count = report.total
       /\ report.success_count
          = Cardinality({k \in 1..Len(report.results) :
                            report.results[k].status = "success"})
       /\ report.failed_count
          >= Cardinality({k \in 1..Len(report.results) :
                            report.results[k].status \in {"skipped", "error"}})

\* C32 witness: a report over two accounts, one skipped and one whose
\* outcome is error, with both counted as failed.
C32_Witness ==
    /\ report.made
    /\ report.total = 2
    /\ report.results[1].status = "skipped"
    /\ report.results[2].status = "error"
    /\ report.success_count = 0
    /\ report.failed_count = 2

\* C33: the sweep thread never ends: whatever exception a cycle raises, for
\* one account or for the cycle as a whole, the thread is asleep again later
\* and a next cycle starts.
C33_SweepNeverTerminates ==
    /\ []<>(sw.pc = "sleep")
    /\ []<>(sw.pc = "cycle")

\* C33 witness: a cycle in which the processing of an account had raised
\* was then cut short by an exception, and the thread is asleep again.
C33_Witness ==
    /\ sw.pc = "sleep"
    /\ sw.aborted
    /\ sw.failed # {}
    /\ Len(sw.snap) > Cardinality(sw.examined)

=============================================================================
